---- MODULE Spec2Model ----
(***************************************************************************)
(* Model of bloom's `git bloom-import-upstream` (src/bloom/                *)
(* import_upstream.py): main() and the linear workflow of                  *)
(* import_upstream(), one action per step of the workflow.                 *)
(*                                                                         *)
(* Text is modelled as text: a branch name, the output of `git branch`     *)
(* and a version string are sequences of one-character strings, so that    *)
(* str.count, `in`, '.'.join and StrictVersion parsing are computed the    *)
(* way Python computes them.                                               *)
(***************************************************************************)
EXTENDS Naturals, Sequences, FiniteSets, TLC

(***************************************************************************)
(* Bounds of the model.                                                    *)
(***************************************************************************)
\* how many branches besides bloom, catkin, upstream and master a repository has
MaxExtra == 1
\* the largest single digit of a version component
MaxDigit == 1
\* the longest configuration file, in lines
MaxConfLen == 3

(***************************************************************************)
(* Text.                                                                   *)
(***************************************************************************)
bloom == <<"b", "l", "o", "o", "m">>
catkin == <<"c", "a", "t", "k", "i", "n">>
upstream == <<"u", "p", "s", "t", "r", "e", "a", "m">>
master == <<"m", "a", "s", "t", "e", "r">>
OldSuffix == <<"-", "o", "l", "d">>
\* HEAD is detached: get_current_git_branch() gives None
NoBranch == <<>>

CoreNames == {bloom, catkin, upstream, master}
ExtraNames == {bloom \o OldSuffix, catkin \o OldSuffix, upstream \o OldSuffix}
\* the branch names in the order `git branch` lists them
NameOrder ==
    << bloom, bloom \o OldSuffix, catkin, catkin \o OldSuffix, master,
       upstream, upstream \o OldSuffix >>

RECURSIVE CountFrom(_, _, _)
CountFrom(s, sub, i) ==
    IF i + Len(sub) - 1 > Len(s) THEN 0
    ELSE IF SubSeq(s, i, i + Len(sub) - 1) = sub
         THEN 1 + CountFrom(s, sub, i + Len(sub))
         ELSE CountFrom(s, sub, i + 1)

\* Python's s.count(sub): the non-overlapping occurrences of sub in s
Count(s, sub) == CountFrom(s, sub, 1)

\* Python's `sub in s` on strings
Contains(s, sub) ==
    \E i \in 1..(Len(s) + 1) :
        /\ i + Len(sub) - 1 <= Len(s)
        /\ SubSeq(s, i, i + Len(sub) - 1) = sub

RECURSIVE BranchLines(_, _, _)
BranchLines(bs, h, i) ==
    IF i > Len(NameOrder) THEN <<>>
    ELSE LET b == NameOrder[i]
         IN  (IF b \in bs
              THEN (IF b = h THEN <<"*", " ">> ELSE <<" ", " ">>) \o b \o <<"\n">>
              ELSE <<>>) \o BranchLines(bs, h, i + 1)

\* the output of `git branch` in a repository with local branches bs and HEAD h
GitBranchOutput(bs, h) ==
    (IF h = NoBranch
     THEN <<"*", " ", "(", "n", "o", " ", "b", "r", "a", "n", "c", "h", ")", "\n">>
     ELSE <<>>) \o BranchLines(bs, h, 1)

(***************************************************************************)
(* Versions.                                                               *)
(***************************************************************************)
DigitChars == <<"0", "1", "2", "3", "4", "5", "6", "7", "8", "9">>
DigitVal(c) == (CHOOSE i \in 1..Len(DigitChars) : DigitChars[i] = c) - 1

\* the components a version is built from: the single digits up to MaxDigit, a
\* two-digit number and a number written with a leading zero
Components ==
    {<<DigitChars[d + 1]>> : d \in 0..MaxDigit} \cup {<<"1", "0">>, <<"0", "1">>}
Dot == <<".">>
\* the three-component version strings of a stack.xml
Versions ==
    {a \o Dot \o b \o Dot \o c : a \in Components, b \in Components, c \in Components}
TagPrefix == upstream \o <<"/">>
\* what get_last_git_tag() can give: no tag (''), or the tag of an earlier import
Tags == {<<>>} \cup {TagPrefix \o v : v \in Versions}

RECURSIVE SplitFrom(_, _, _, _)
SplitFrom(s, sep, i, cur) ==
    IF i > Len(s) THEN <<cur>>
    ELSE IF s[i] = sep THEN <<cur>> \o SplitFrom(s, sep, i + 1, <<>>)
         ELSE SplitFrom(s, sep, i + 1, Append(cur, s[i]))

\* Python's s.split(sep) for a one-character separator
Split(s, sep) == SplitFrom(s, sep, 1, <<>>)

RECURSIVE Join(_, _)
\* Python's sep.join(parts)
Join(sep, parts) ==
    IF Len(parts) = 0 THEN <<>>
    ELSE IF Len(parts) = 1 THEN parts[1]
         ELSE parts[1] \o sep \o Join(sep, Tail(parts))

RECURSIVE ParseInt(_)
\* int() of a string of decimal digits
ParseInt(ds) ==
    IF Len(ds) = 0 THEN 0
    ELSE 10 * ParseInt(SubSeq(ds, 1, Len(ds) - 1)) + DigitVal(ds[Len(ds)])

\* distutils' StrictVersion(s).version for a string major.minor.patch
StrictVersion(s) ==
    LET parts == Split(s, ".")
    IN  <<ParseInt(parts[1]), ParseInt(parts[2]), ParseInt(parts[3])>>

\* StrictVersion.__cmp__ on two versions without a pre-release tag: the order of
\* the number triples
StrictLess(x, y) ==
    \/ x[1] < y[1]
    \/ x[1] = y[1] /\ x[2] < y[2]
    \/ x[1] = y[1] /\ x[2] = y[2] /\ x[3] < y[3]

\* bloom.util.segment_version: the major, minor and patch strings of a version
segment_version(full_version) == Split(full_version, ".")

\* bloom.util.get_versions_from_upstream_tag: the segments of the version that
\* follows the `/` of the tag
get_versions_from_upstream_tag(tag) == segment_version(Split(tag, "/")[2])

(***************************************************************************)
(* Configuration files of the release branch.                              *)
(***************************************************************************)
Headers == {"[catkin]", "[bloom]"}
Keys == {"upstream", "upstreamtype"}
Lines == Headers \cup Keys
\* a file is a section header followed by lines that are all different
ConfTexts ==
    UNION {{t \in [1..n -> Lines] :
              /\ t[1] \in Headers
              /\ \A i, j \in 1..n : i # j => t[i] # t[j]} : n \in 1..MaxConfLen}

Exists(fs, name) == \E f \in fs : f[1] = name
Content(fs, name) == (CHOOSE f \in fs : f[1] = name)[2]

\* the replaced text is dropped: conf_file.replace(...) without the assignment
ReplaceCatkin_Dropped(text) == text

\* str.replace('[catkin]', '[bloom]') on the lines of a file
ReplaceCatkin(text) ==
    [i \in 1..Len(text) |-> IF text[i] = "[catkin]" THEN "[bloom]" ELSE text[i]]

\* `git config -f bloom.conf bloom.<key>` finds the key in a [bloom] section
HasKey(text, key) ==
    \E i, j \in 1..Len(text) :
        /\ i < j
        /\ text[i] = "[bloom]"
        /\ text[j] = key
        /\ \A k \in (i + 1)..(j - 1) : text[k] \notin Headers

(***************************************************************************)
(* State.                                                                  *)
(***************************************************************************)
VARIABLES
    pc,               \* the step of main()/import_upstream() that runs next
    in_git,           \* bloom_repo.detect_presence()
    branches,         \* the local branches of the release repository
    remotes,          \* the branches of origin
    head,             \* the branch that is checked out (NoBranch: detached)
    conf_branch,      \* the branch whose tree holds the configuration files
    files,            \* the configuration files of that tree: <<name, text>>
    commits,          \* the messages of the commits this run created
    last_tag,         \* the latest upstream tag of the release repository
    stack_version,    \* the version in upstream's stack.xml
    current_branch,   \* main()'s current_branch
    gbp,              \* gbp_major, gbp_minor, gbp_patch
    warnings,         \* the warnings printed so far
    failure,          \* why the run was aborted ("none": it was not)
    failed_at,        \* the step that aborted the run
    detected,         \* the result of detect_git_import_orig()
    import_heads,     \* the branch checked out at each run of `git import-orig`
    restores,         \* the checkouts the cleanup of main() attempted
    start             \* the repository as it was when the run began

vars ==
    << pc, in_git, branches, remotes, head, conf_branch, files, commits, last_tag,
       stack_version, current_branch, gbp, warnings, failure, failed_at, detected,
       import_heads, restores, start >>

repo == <<branches, remotes, head, conf_branch, files, commits, last_tag>>
run == <<gbp, warnings, detected, import_heads, restores>>

HintMessage == "This does not appear to be a bloom release repo"
RenameMessage == "rename catkin.conf to bloom.conf"
InitialMessage == "Initial upstream branch"

\* bloom.util.bailout and every uncaught exception: the rest of import_upstream
\* is skipped and the finally block of main() runs
Fail(step, reason) ==
    /\ pc' = "cleanup"
    /\ failure' = reason
    /\ failed_at' = step

Proceed(next) ==
    /\ pc' = next
    /\ UNCHANGED <<failure, failed_at>>

\* vcstools' GitClient.update(version): the branch is checked out when it
\* exists; otherwise update returns False and HEAD stays where it is
Update(bs, h, version) == IF version \in bs THEN version ELSE h

\* the file is in the working tree
InTree(h, cb, fs, name) == h # NoBranch /\ h = cb /\ Exists(fs, name)

(***************************************************************************)
(* Initial states.                                                         *)
(***************************************************************************)
BranchSets ==
    {core \cup extra :
        core \in SUBSET CoreNames,
        extra \in {e \in SUBSET ExtraNames : Cardinality(e) <= MaxExtra}}

\* the configuration files a release branch can hold
FileSets ==
    {{}}
    \cup {{<<"catkin.conf", t>>} : t \in ConfTexts}
    \cup {{<<"bloom.conf", t>>} : t \in ConfTexts}
    \cup {{<<"catkin.conf", t>>, <<"bloom.conf", <<"[bloom]">>>>} :
            t \in {x \in ConfTexts : Len(x) = 1}}

\* the branch that holds the configuration: bloom, else catkin, else a branch
\* kept from an older setup
ConfBranchOf(bs, rs) ==
    IF bloom \in bs \cup rs THEN bloom
    ELSE IF catkin \in bs THEN catkin
    ELSE IF bs \cap ExtraNames # {} THEN CHOOSE b \in bs \cap ExtraNames : TRUE
    ELSE NoBranch

InitRun ==
    /\ pc = "main"
    /\ current_branch = NoBranch
    /\ commits = <<>>
    /\ gbp = <<>>
    /\ warnings = <<>>
    /\ failure = "none"
    /\ failed_at = "none"
    /\ detected = "unknown"
    /\ import_heads = <<>>
    /\ restores = <<>>
    /\ start = [branches |-> branches, head |-> head, files |-> files,
                conf_branch |-> conf_branch]

\* a small fixed choice of versions, for the runs that explore the repository
FewVersions == {<<"0">> \o Dot \o <<"1">> \o Dot \o <<"0">>}
FewTags ==
    {<<>>} \cup {TagPrefix \o (<<"0">> \o Dot \o a \o Dot \o <<"0">>) :
                    a \in {<<"0">>, <<"1">>, <<"1", "0">>}}

\* outside a git repository there are no branches and no files
NoRepository ==
    /\ branches = {}
    /\ remotes = {}
    /\ head = NoBranch
    /\ conf_branch = NoBranch
    /\ files = {}

Init ==
    /\ in_git \in BOOLEAN
    /\ IF in_git
       THEN /\ branches \in BranchSets
            \* origin is absent, or carries the two branches that are tracked
            /\ remotes \in {{}, {bloom, upstream}}
            /\ head \in branches \cup {NoBranch}
            /\ conf_branch = ConfBranchOf(branches, remotes)
            /\ files \in (IF conf_branch = NoBranch THEN {{}} ELSE FileSets)
            /\ stack_version \in FewVersions
            \* an upstream tag is left by an import, which has an upstream branch
            /\ last_tag \in (IF upstream \in branches THEN FewTags ELSE {<<>>})
       ELSE /\ NoRepository
            /\ stack_version \in FewVersions
            /\ last_tag = <<>>
    /\ InitRun

\* a release repository in good order, with or without an upstream branch, and
\* every version and every tag of the bounds
InitVersions ==
    /\ in_git \in BOOLEAN
    /\ IF in_git
       THEN /\ branches \in {{bloom, master}, {bloom, master, upstream}}
            /\ remotes = {}
            /\ head = master
            /\ conf_branch = bloom
            /\ files = {<<"bloom.conf", <<"[bloom]", "upstream", "upstreamtype">>>>}
            /\ stack_version \in Versions
            /\ last_tag \in Tags
       ELSE /\ NoRepository
            /\ stack_version \in FewVersions
            /\ last_tag = <<>>
    /\ InitRun

(***************************************************************************)
(* main(), up to the try block.                                            *)
(***************************************************************************)
Main ==
    /\ pc = "main"
    /\ IF ~in_git
       THEN \* error("Not in a git repository."); usage(); return 1
            /\ pc' = "done"
            /\ failure' = "Not in a git repository"
            /\ failed_at' = "main"
            /\ UNCHANGED current_branch
       ELSE /\ current_branch' = head
            /\ Proceed("track")
    /\ UNCHANGED <<in_git, repo, stack_version, run, start>>

\* track_all_git_branches(['bloom', 'upstream']): a branch of origin that is
\* not a local branch yet becomes one, and the branch that was checked out is
\* checked out again
TrackAllGitBranches ==
    /\ pc = "track"
    /\ LET created == {b \in {bloom, upstream} : b \notin branches /\ b \in remotes}
       IN  /\ branches' = branches \cup created
           /\ head' = IF head # NoBranch \/ created = {} THEN head
                      ELSE IF upstream \in created THEN upstream ELSE bloom
    /\ Proceed("check_for_bloom")
    /\ UNCHANGED <<in_git, remotes, conf_branch, files, commits, last_tag,
                   stack_version, current_branch, run, start>>

(***************************************************************************)
(* Repository validation.                                                  *)
(***************************************************************************)
\* The result of convert_catkin_to_bloom in a repository with branches bs, HEAD
\* h, configuration files fs on branch cb and new commits cs; failure names the
\* command execute_command failed on ("none": every command succeeded).
convert_catkin_to_bloom(bs, h, cb, fs, cs) ==
    IF catkin \notin bs \/ bloom \in bs
    THEN \* git branch -m catkin bloom: no branch catkin, or bloom is taken
         [failure |-> "git branch -m catkin bloom", branches |-> bs, head |-> h,
          conf_branch |-> cb, files |-> fs, commits |-> cs]
    ELSE LET bs1 == (bs \ {catkin}) \cup {bloom}
             cb1 == IF cb = catkin THEN bloom ELSE cb
             \* git checkout bloom
             h1 == bloom
             has_catkin_conf == InTree(h1, cb1, fs, "catkin.conf")
             has_bloom_conf == InTree(h1, cb1, fs, "bloom.conf")
             \* git mv catkin.conf bloom.conf
             fs1 == IF has_catkin_conf
                    THEN {<<"bloom.conf", Content(fs, "catkin.conf")>>}
                    ELSE fs
             text == Content(fs1, "bloom.conf")
             \* the file is read, replaced and written back
             fs2 == {<<"bloom.conf", ReplaceCatkin(text)>>}
         IN  IF has_catkin_conf /\ has_bloom_conf
             THEN \* git mv refuses to overwrite bloom.conf
                  [failure |-> "git mv catkin.conf bloom.conf", branches |-> bs1,
                   head |-> h1, conf_branch |-> cb1, files |-> fs, commits |-> cs]
             ELSE IF ~(has_catkin_conf \/ has_bloom_conf)
             THEN \* no bloom.conf: nothing is rewritten or committed
                  [failure |-> "none", branches |-> bs1, head |-> h1,
                   conf_branch |-> cb1, files |-> fs1, commits |-> cs]
             ELSE IF ~has_catkin_conf /\ ReplaceCatkin(text) = text
             THEN \* nothing is staged: git commit exits with status 1
                  [failure |-> "git commit", branches |-> bs1, head |-> h1,
                   conf_branch |-> cb1, files |-> fs2, commits |-> cs]
             ELSE [failure |-> "none", branches |-> bs1, head |-> h1,
                   conf_branch |-> cb1, files |-> fs2,
                   commits |-> Append(cs, RenameMessage)]

\* check_for_bloom(os.getcwd())
CheckForBloom ==
    /\ pc = "check_for_bloom"
    /\ LET out == GitBranchOutput(branches, head)
       IN  IF Count(out, bloom) # 0
           THEN /\ Proceed("check_conf")
                /\ UNCHANGED <<branches, head, conf_branch, files, commits>>
           ELSE IF Count(out, catkin) = 0
           THEN /\ Fail("check_for_bloom", HintMessage)
                /\ UNCHANGED <<branches, head, conf_branch, files, commits>>
           ELSE LET r == convert_catkin_to_bloom(branches, head, conf_branch,
                                                 files, commits)
                IN  /\ branches' = r.branches
                    /\ head' = r.head
                    /\ conf_branch' = r.conf_branch
                    /\ files' = r.files
                    /\ commits' = r.commits
                    /\ IF r.failure = "none"
                       THEN Proceed("check_conf")
                       ELSE Fail("check_for_bloom", r.failure)
    /\ UNCHANGED <<in_git, remotes, last_tag, stack_version, current_branch, run,
                   start>>

\* bloom_repo.update('bloom') and the check for bloom.conf
CheckBloomConf ==
    /\ pc = "check_conf"
    /\ head' = Update(branches, head, bloom)
    /\ IF InTree(head', conf_branch, files, "bloom.conf")
       THEN Proceed("parse_conf")
       ELSE Fail("check_conf", HintMessage)
    /\ UNCHANGED <<in_git, branches, remotes, conf_branch, files, commits,
                   last_tag, stack_version, current_branch, run, start>>

(***************************************************************************)
(* Configuration and upstream.                                             *)
(***************************************************************************)
\* parse_bloom_conf(), summarize_repo_info() and the checks of a git upstream
ParseBloomConf ==
    /\ pc = "parse_conf"
    /\ LET text == Content(files, "bloom.conf")
       IN  IF ~(HasKey(text, "upstream") /\ HasKey(text, "upstreamtype"))
           THEN Fail("parse_conf", "CalledProcessError")
           ELSE \E upstream_type \in {"git", "svn"}, is_gbp \in BOOLEAN :
                    IF upstream_type = "git" /\ is_gbp
                    THEN Fail("parse_conf", "upstream is a gbp repo")
                    ELSE Proceed("fetch")
    /\ UNCHANGED <<in_git, repo, stack_version, current_branch, run, start>>

\* the checkout of upstream, stack.xml and the export of the tar ball
FetchUpstream ==
    /\ pc = "fetch"
    /\ \E has_stack_xml \in BOOLEAN :
           IF has_stack_xml
           THEN Proceed("reconcile")
           ELSE Fail("fetch", "No stack.xml")
    /\ UNCHANGED <<in_git, repo, stack_version, current_branch, run, start>>

(***************************************************************************)
(* Version reconciliation.                                                 *)
(***************************************************************************)
\* the operands of the first comparison are exchanged
ReconcileVersion_Swapped ==
    /\ pc = "reconcile"
    /\ IF last_tag = <<>>
       THEN /\ gbp' = segment_version(stack_version)
            /\ UNCHANGED warnings
            /\ Proceed("look_for_upstream")
       ELSE LET g == get_versions_from_upstream_tag(last_tag)
                full_version_strict == StrictVersion(stack_version)
                last_tag_version_strict == StrictVersion(Join(Dot, g))
                lower == IF StrictLess(last_tag_version_strict, full_version_strict)
                         THEN <<"regression">>
                         ELSE <<>>
            IN  /\ gbp' = g
                /\ warnings' = warnings \o lower
                /\ IF full_version_strict = last_tag_version_strict
                   THEN Fail("reconcile", "AttributeError")
                   ELSE Proceed("look_for_upstream")
    /\ UNCHANGED <<in_git, repo, stack_version, current_branch, detected,
                   import_heads, restores, start>>

\* the comparisons are made after the if/else, with or without a tag
ReconcileVersion_CompareAlways ==
    /\ pc = "reconcile"
    /\ LET g == IF last_tag = <<>>
                THEN segment_version(stack_version)
                ELSE get_versions_from_upstream_tag(last_tag)
           full_version_strict == StrictVersion(stack_version)
           last_tag_version_strict == StrictVersion(Join(Dot, g))
           lower == IF StrictLess(full_version_strict, last_tag_version_strict)
                    THEN <<"regression">>
                    ELSE <<>>
       IN  /\ gbp' = g
           /\ warnings' = warnings \o lower
           /\ IF full_version_strict = last_tag_version_strict
              THEN Fail("reconcile", "AttributeError")
              ELSE Proceed("look_for_upstream")
    /\ UNCHANGED <<in_git, repo, stack_version, current_branch, detected,
                   import_heads, restores, start>>

ReconcileVersion ==
    /\ pc = "reconcile"
    /\ IF last_tag = <<>>
       THEN /\ gbp' = segment_version(stack_version)
            /\ UNCHANGED warnings
            /\ Proceed("look_for_upstream")
       ELSE LET g == get_versions_from_upstream_tag(last_tag)
                full_version_strict == StrictVersion(stack_version)
                last_tag_version == Join(Dot, g)
                last_tag_version_strict == StrictVersion(last_tag_version)
                lower == IF StrictLess(full_version_strict, last_tag_version_strict)
                         THEN <<"regression">>
                         ELSE <<>>
            IN  /\ gbp' = g
                /\ warnings' = warnings \o lower
                /\ IF full_version_strict = last_tag_version_strict
                   THEN \* stack.verison: the message cannot be formatted, and
                        \* warning() is never called
                        Fail("reconcile", "AttributeError")
                   ELSE Proceed("look_for_upstream")
    /\ UNCHANGED <<in_git, repo, stack_version, current_branch, detected,
                   import_heads, restores, start>>

(***************************************************************************)
(* The upstream branch and the import.                                     *)
(***************************************************************************)
\* the check for an upstream branch, and create_initial_upstream_branch()
LookForUpstreamBranch ==
    /\ pc = "look_for_upstream"
    /\ LET output == GitBranchOutput(branches, head)
       IN  IF Count(output, upstream) = 0
           THEN \* git symbolic-ref HEAD refs/heads/upstream, an empty tree and
                \* an empty first commit
                /\ branches' = branches \cup {upstream}
                /\ head' = upstream
                /\ commits' = Append(commits, InitialMessage)
           ELSE UNCHANGED <<branches, head, commits>>
    /\ Proceed("go_to_master")
    /\ UNCHANGED <<in_git, remotes, conf_branch, files, last_tag, stack_version,
                   current_branch, run, start>>

\* bloom_repo.update('master')
GoToMaster ==
    /\ pc = "go_to_master"
    /\ head' = Update(branches, head, master)
    /\ Proceed("detect")
    /\ UNCHANGED <<in_git, branches, remotes, conf_branch, files, commits,
                   last_tag, stack_version, current_branch, run, start>>

\* detect_git_import_orig() and the bailout when it gives False
DetectGitImportOrig ==
    /\ pc = "detect"
    /\ \E installed \in BOOLEAN :
           IF installed
           THEN /\ detected' = "yes"
                /\ Proceed("import")
           ELSE /\ detected' = "no"
                /\ Fail("detect", "git-import-orig not detected")
    /\ UNCHANGED <<in_git, repo, stack_version, current_branch, gbp, warnings,
                   import_heads, restores, start>>

\* git import-orig <tarball>.tar.gz, once
ImportTarball ==
    /\ pc = "import"
    /\ import_heads' = Append(import_heads, head)
    /\ \E status \in {"zero", "nonzero"} :
           IF status = "zero"
           THEN \* the tar ball is merged and tagged; "I'm happy" is printed
                /\ commits' = Append(commits, "import")
                /\ last_tag' = TagPrefix \o stack_version
                /\ Proceed("cleanup")
           ELSE /\ UNCHANGED <<commits, last_tag>>
                /\ Fail("import", "git-import-orig failed")
    /\ UNCHANGED <<in_git, branches, remotes, head, conf_branch, files,
                   stack_version, current_branch, gbp, warnings, detected,
                   restores, start>>

(***************************************************************************)
(* The finally block of main().                                            *)
(***************************************************************************)
\* the branch is restored after the last statement of the try block instead of
\* in a finally block: an aborted run skips it
Cleanup_NoFinally ==
    /\ pc = "cleanup"
    /\ LET local_branches == GitBranchOutput(branches, head)
       IN  IF /\ failure = "none"
              /\ current_branch # NoBranch
              /\ Contains(local_branches, current_branch)
           THEN /\ head' = Update(branches, head, current_branch)
                /\ restores' = Append(restores, [branch |-> current_branch,
                                                 from |-> head,
                                                 exists |-> current_branch \in branches])
           ELSE UNCHANGED <<head, restores>>
    /\ pc' = "done"
    /\ UNCHANGED <<in_git, branches, remotes, conf_branch, files, commits,
                   last_tag, stack_version, current_branch, gbp, warnings,
                   failure, failed_at, detected, import_heads, start>>

Cleanup ==
    /\ pc = "cleanup"
    /\ LET local_branches == GitBranchOutput(branches, head)
       IN  IF current_branch # NoBranch /\ Contains(local_branches, current_branch)
           THEN /\ head' = Update(branches, head, current_branch)
                /\ restores' = Append(restores, [branch |-> current_branch,
                                                 from |-> head,
                                                 exists |-> current_branch \in branches])
           ELSE UNCHANGED <<head, restores>>
    /\ pc' = "done"
    /\ UNCHANGED <<in_git, branches, remotes, conf_branch, files, commits,
                   last_tag, stack_version, current_branch, gbp, warnings,
                   failure, failed_at, detected, import_heads, start>>

Next ==
    \/ Main
    \/ TrackAllGitBranches
    \/ CheckForBloom
    \/ CheckBloomConf
    \/ ParseBloomConf
    \/ FetchUpstream
    \/ ReconcileVersion
    \/ LookForUpstreamBranch
    \/ GoToMaster
    \/ DetectGitImportOrig
    \/ ImportTarball
    \/ Cleanup

\* every repository of the bounds, with a few versions
Spec == Init /\ [][Next]_vars

\* every version and every tag of the bounds, in a release repository in good order
SpecVersions == InitVersions /\ [][Next]_vars

(***************************************************************************)
(* Properties.                                                             *)
(***************************************************************************)
\* the version reconciliation has run
Reconciled == pc = "look_for_upstream" \/ failed_at = "reconcile"
\* the new version, and the version the last tag encodes, as numbers
NewVersion == StrictVersion(stack_version)
TagVersion == StrictVersion(SubSeq(last_tag, Len(TagPrefix) + 1, Len(last_tag)))
\* no branch of bs has a name that contains the name n
NoneContains(bs, n) == \A b \in bs : ~Contains(b, n)

\* C1: when a run that passed the git-repository check has ended, normally or
\* by a fatal error at any step, and the branch that was checked out at its
\* start is still a local branch, that branch is checked out.
C1_OriginalBranchRestored ==
    (pc = "done" /\ in_git /\ current_branch # NoBranch /\ current_branch \in branches)
        => head = current_branch

\* an aborted run whose cleanup found another branch checked out and went
\* back to the original one
C1_Witness ==
    /\ pc = "done"
    /\ failure # "none"
    /\ current_branch \in branches
    /\ head = current_branch
    /\ \E i \in DOMAIN restores : restores[i].from # current_branch

\* C2: when the new version equals the version of the last release tag, the
\* reconciliation prints exactly one staleness warning and the run goes on to
\* the check for the upstream branch.
C2_EqualVersionWarnsAndContinues ==
    (Reconciled /\ last_tag # <<>> /\ NewVersion = TagVersion)
        => /\ warnings = <<"staleness">>
           /\ pc = "look_for_upstream"
           /\ failure = "none"

\* C3: when the new version is lower than the version of the last release
\* tag, the reconciliation prints exactly one regression warning and no
\* staleness warning, and the run goes on to the check for the upstream branch.
C3_LowerVersionWarnsOnceAndContinues ==
    (Reconciled /\ last_tag # <<>> /\ StrictLess(NewVersion, TagVersion))
        => /\ warnings = <<"regression">>
           /\ pc = "look_for_upstream"
           /\ failure = "none"

\* a lower version whose text is not lower: 0.1.x against 0.01.y or 0.10.y
C3_Witness ==
    /\ pc = "look_for_upstream"
    /\ last_tag # <<>>
    /\ StrictLess(NewVersion, TagVersion)
    /\ NewVersion[2] = 1
    /\ Len(gbp[2]) = 2
    /\ warnings = <<"regression">>

C5_NoReleaseBranchFailsWithHint ==
    (/\ in_git
     /\ remotes = {}
     /\ bloom \notin start.branches
     /\ catkin \notin start.branches)
        => /\ pc \in {"main", "track", "check_for_bloom", "check_conf", "cleanup",
                      "done"}
           /\ pc \in {"cleanup", "done"} => failure = HintMessage
           /\ pc = "cleanup" =>
                /\ branches = start.branches
                /\ head = start.head
                /\ files = start.files
                /\ commits = <<>>

\* C6: when check_for_bloom has returned, the repository has a branch named
\* bloom.
C6_BloomBranchAfterValidation == pc = "check_conf" => bloom \in branches

\* C7: when the run reaches the import, the repository has a branch named
\* upstream.
C7_UpstreamBranchAtImport == pc = "import" => upstream \in branches

\* the repository the migration is claimed for: a branch catkin with a
\* catkin.conf that contains [catkin], and no bloom branch
C8_Legacy ==
    /\ pc = "check_for_bloom"
    /\ catkin \in branches
    /\ NoneContains(branches, bloom)
    /\ NoneContains(branches \ {catkin}, catkin)
    /\ conf_branch = catkin
    /\ Exists(files, "catkin.conf")
    /\ \E i \in DOMAIN Content(files, "catkin.conf") :
           Content(files, "catkin.conf")[i] = "[catkin]"

\* the repository after the migration
C8_Migrated ==
    /\ pc = "check_conf"
    /\ bloom \in branches
    /\ head = bloom
    /\ catkin \notin branches
    /\ ~Exists(files, "catkin.conf")
    /\ Exists(files, "bloom.conf")
    /\ conf_branch = bloom
    /\ \E i \in DOMAIN Content(files, "bloom.conf") :
           Content(files, "bloom.conf")[i] = "[bloom]"
    /\ \A i \in DOMAIN Content(files, "bloom.conf") :
           Content(files, "bloom.conf")[i] # "[catkin]"
    /\ commits = <<RenameMessage>>

C9_ImportOnceDetectedOnMaster ==
    remotes = {} =>
        /\ Len(import_heads) <= 1
        /\ \A i \in DOMAIN import_heads : detected = "yes" /\ import_heads[i] = master
        /\ detected = "no" =>
             /\ import_heads = <<>>
             /\ failure = "git-import-orig not detected"
             /\ pc \in {"cleanup", "done"}

\* C10: the cleanup checks out the original branch only when a local branch of
\* exactly that name exists.
C10_RestoreOnlyExistingBranch ==
    \A i \in DOMAIN restores : restores[i].exists

====
